---- MODULE Spec2Model ----
(***************************************************************************)
(* The paper-trading accounting adapter of Dhan-Backtrader: DhanBroker     *)
(* (src/dhan_broker.py), driven by a strategy engine that creates orders,  *)
(* submits and cancels them and reads cash, value and positions.           *)
(*                                                                         *)
(* Units.  Money (cash, value, trade_value, commission) is counted in      *)
(* paise, 1/100 rupee; prices are whole rupees; the configured commission  *)
(* is counted in thousandths (0.001 is 1, 20.0 is 20000).  avg_price is    *)
(* an exact fraction of rupees.  The source computes in binary floating    *)
(* point; every price of the model is a multiple of 10 rupees, for which   *)
(* the products below are exact in paise.                                  *)
(***************************************************************************)
EXTENDS Integers, Sequences, FiniteSets, TLC

VARIABLES
    cash,           \* DhanBroker.cash
    value,          \* DhanBroker.value, the value stored by the last getvalue
    positions,      \* DhanBroker.positions: symbol -> quantity, avg_price, last_price
    order,          \* the order object the strategy engine holds, the latest it created
    order_count,    \* how many order objects it has created
    commission,     \* DhanBroker.commission, read from TRADING_CONFIG at construction
    paper_trading,  \* TRADING_CONFIG.get('paper_trading', True)
    filled,         \* the latest submit that moved cash and positions, with what it was given
    last,           \* the call that produced this state, with what it was given
    strategy,       \* the strategy class that runs
    orders,         \* its self.orders (self.order): symbol -> the order it tracks, 0 for none
    issued,         \* the orders it has issued, as its broker holds them
    notifications,  \* the order notifications its broker has queued for it
    held,           \* the position size of each symbol at its broker
    crossover,      \* the latest non-zero value of each symbol's CrossOver indicator
    trades,         \* the trade records the strategy's logger has been given
    params,         \* the parameters the strategy was added with
    kite,           \* LiveDataFeed.kite: whether the feed has an API client
    is_live,        \* LiveDataFeed.is_live
    workers,        \* the threads that run LiveDataFeed._live_data_worker
    live_data_queue,\* LiveDataFeed.live_data_queue
    paper_order,    \* the order handed to PaperTradingBroker.submit
    feed_class,     \* the data feed class that is constructed
    fetch,          \* what its historical fetch met: symbol, client, outcome, records
    dataname,       \* the timestamps of the bars it hands to PandasData, minutes of the day
    built,          \* how its constructor ended: on fetched bars, on sample bars, or raising
    pending_order,  \* DhanTradingStrategy.order: whether it holds an order object
    bar_count,      \* DhanTradingStrategy.bar_count, counted up to MaxBars
    engine,         \* the step of the engine's loop that comes next: notify or next
    portfolio_snapshots, \* the rows of the logger's table portfolio_snapshots
    portfolio_history,   \* TradingLogger.portfolio_history, each entry by its row
    summary         \* 'portfolio_history' of what the latest logger call returned

broker_vars == <<cash, value, positions, order, order_count, commission, paper_trading,
                 filled, last>>

strategy_vars == <<strategy, orders, issued, notifications, held, crossover, trades,
                   params>>

feed_vars == <<kite, is_live, workers, live_data_queue>>

bars_vars == <<feed_class, fetch, dataname, built>>

demo_vars == <<pending_order, bar_count, engine>>

logger_vars == <<portfolio_snapshots, portfolio_history, summary>>

aux_vars == <<feed_vars, paper_order, bars_vars, demo_vars, logger_vars>>

vars == <<broker_vars, strategy_vars, aux_vars>>

(***************************************************************************)
(* Bounds and configuration                                                *)
(***************************************************************************)

\* Orders the strategy engine creates in one session.
MaxOrders == 2

\* TRADING_CONFIG['initial_cash'] = 500000.0, in paise.
initial_cash == 50000000

\* TRADING_CONFIG['commission'] = 0.001 (dhan_config), in thousandths.
PercentCommission == 1

\* TRADING_CONFIG['commission'] = 20.0, "Rs 20 per order" (zerodha_config), in
\* thousandths: the flat policy's configuration handed to the same field.
FlatCommission == 20000

\* The commission configurations of the repository, and no commission.
CommissionConfigs == {0, PercentCommission, FlatCommission}

Symbols == {"RELIANCE", "TCS"}

Sides == {"BUY", "SELL"}

\* abs(order.created.size) of an order intent: a positive integer.
Quantities(symbol) == IF symbol = "RELIANCE" THEN {5, 100} ELSE {10, 100}

\* Prices an order may carry (order.created.price), in rupees.
LimitPrices(symbol) == IF symbol = "RELIANCE" THEN {2450, 2500} ELSE {100, 120}

\* order.data.close[0], the close of the symbol's current bar, in rupees.
ClosePrices(symbol) == IF symbol = "RELIANCE" THEN {2600} ELSE {1000}

\* order.created.price: absent (None) is <<>>, a price p is <<p>>.
RequestedPrices(symbol) == {<<>>, <<0>>} \cup {<<p>> : p \in LimitPrices(symbol)}

\* Where called code raises during a simulated fill: nowhere, at the close
\* lookup of a market order (order.data.close[0], line 128), or right after
\* order.completed(), before the fill is written to order.executed
\* (bt.date2num, line 165).
RaisePoints == {"none", "close", "executed"}

\* What dhan.place_order does in the live path.
Responses == {"success", "failure", "exception"}

\* Orders a strategy issues in one session.
MaxIssued == 2

\* Bars DhanTradingStrategy.bar_count counts; it stays there on later bars.
MaxBars == 3

\* Line 210: the snapshots TradingLogger keeps in memory.
history_limit == 1000

\* Line 250: the snapshots of a session summary.
summary_size == 50

\* Calls of log_portfolio_snapshot in one session.
MaxSnapshots == 1002

\* Calls of start_live_feed on one feed.
MaxStarts == 2

\* Bars put on the live-data queue of one feed.
MaxQueued == 3

\* data['last_price'] of a quote, in rupees.
QuotePrices == {2450, 2500, 2600}

\* CONFIG['slippage_percent'] = 0.05, in hundredths of a percent.
slippage_percent == 5

\* order.data.close[0] of an order handed to PaperTradingBroker, in paise.
PaperCloses == {0, 1, 95000, 165000, 180000, 245000, 245050, 320000}

\* order.created.price of such an order, in paise: absent (None) is <<>>.
PaperPrices == {<<>>, <<0>>, <<100>>, <<245000>>}

\* Records one historical fetch returns.
MaxRecords == 3

\* The data feed classes.
FeedClasses == {"DhanData", "ZerodhaData", "LiveDataFeed"}

\* Timestamps of fetched records, in minutes of the day: 9:15, 9:20, 9:25.
RecordTimes == {555, 560, 565}

\* How the API call of a historical fetch ends.
FetchOutcomes == {"exception", "failure", "empty", "records"}

\* The minutes of the hours that pd.date_range generates.
SampleMinutes == {0, 14, 15, 30, 31, 45}

\* What kite.quote answers: the instrument's quote, a quote without the
\* instrument, or an exception.
QuoteAnswers == {"quote", "missing", "exception"}

\* The strategy classes that track their pending orders.
Strategies ==
    {"TradingStrategy", "EnhancedTradingStrategy", "SimpleStrategy", "EnhancedStrategy"}

\* The strategies that trade self.data only.
SingleDataStrategies == {"SimpleStrategy", "EnhancedStrategy"}

\* The strategies that hand trade records to a logger.
LoggingStrategies == {"EnhancedTradingStrategy", "EnhancedStrategy"}

\* params.max_positions of TradingStrategy and EnhancedTradingStrategy: the
\* default, which main leaves in place.
max_positions == 3

\* The values the strategy is added with: the default, and one below the
\* number of data feeds.
MaxPositionsParams == {1, max_positions}

\* CrossOver of a bar: fast MA crossing above (> 0) or below (< 0) slow MA.
Crosses == {"none", "up", "down"}

\* RSI of a bar: below 70, from 70 to 80, above 80.
RsiZones == {"low", "mid", "high"}

(***************************************************************************)
(* Arithmetic                                                              *)
(***************************************************************************)

Abs(x) == IF x < 0 THEN -x ELSE x

RECURSIVE GCD(_, _)
GCD(a, b) == IF b = 0 THEN a ELSE GCD(b, a % b)

\* The fraction n/d in lowest terms with a positive denominator, d # 0.
Ratio(n, d) ==
    LET g == GCD(Abs(n), Abs(d))
        sign == IF d < 0 THEN -1 ELSE 1
    IN  [num |-> sign * (n \div g), den |-> sign * (d \div g)]

\* 0.0
Zero == [num |-> 0, den |-> 1]

(***************************************************************************)
(* Order objects: the status calls the adapter makes on them               *)
(***************************************************************************)

\* No order object yet.
NoOrder == [status |-> "None", marks |-> <<>>]

NewOrderObject == [status |-> "Created", marks |-> <<"Created">>]

\* A status call: `marks` lists the statuses the order has had, in order.
Mark(o, status) ==
    IF o.status = status
    THEN o
    ELSE [status |-> status, marks |-> Append(o.marks, status)]

\* order.accept(), order.completed(), order.cancel(): the status is set.
order_accept(o) == Mark(o, "Accepted")

order_completed(o) == Mark(o, "Completed")

order_cancel(o) == Mark(o, "Cancelled")

\* order.reject(): the status is set unless the order is Rejected already.
order_reject(o) == Mark(o, "Rejected")

(***************************************************************************)
(* DhanBroker                                                              *)
(***************************************************************************)

\* hasattr(order.created, 'price') and order.created.price: None and 0 are falsy.
HasPrice(requested) == Len(requested) > 0 /\ requested[1] # 0

\* Lines 124-128: the order's price, or the current close for a market order.
ExecutionPrice(requested, close) == IF HasPrice(requested) THEN requested[1] ELSE close

\* Line 131, in paise.
TradeValue(quantity, execution_price) == quantity * execution_price * 100

\* A slip: the configured number read as a percentage, trade_value * rate / 100.
CommissionAsPercent(trade_value, rate) == (trade_value \div 100) * rate

\* Line 132: trade_value * self.commission, the commission in thousandths.
Commission(trade_value, rate) ==
    (trade_value \div 1000) * rate + ((trade_value % 1000) * rate) \div 1000

\* A slip: a BUY that would use all of the cash is rejected too.
InsufficientCashAtBoundary(total_cost, c) == total_cost >= c

\* Line 142.
InsufficientCash(total_cost, c) == total_cost > c

\* Line 151: self.positions.get(symbol, {'quantity': 0})['quantity'].
HeldQuantity(ps, symbol) == IF symbol \in DOMAIN ps THEN ps[symbol].quantity ELSE 0

\* A slip: a SELL of the whole holding is rejected too.
InsufficientPositionAtBoundary(quantity, current_position) == quantity >= current_position

\* A slip: the holding is not checked.
PositionNotChecked(quantity, current_position) == FALSE

\* Line 152.
InsufficientPosition(quantity, current_position) == quantity > current_position

\* A slip: the new average is the mean of the old average and the fill price,
\* whatever the quantities.
BuyPositionMeanOfPrices(pos, quantity, price) ==
    [pos EXCEPT
        !.avg_price = Ratio(pos.avg_price.num + price * pos.avg_price.den,
                            2 * pos.avg_price.den),
        !.quantity = @ + quantity]

\* Lines 226-232: the position after a BUY.
BuyPosition(pos, quantity, price) ==
    LET new_quantity == pos.quantity + quantity
    IN  [pos EXCEPT
            !.avg_price =
                IF new_quantity # 0
                THEN Ratio(pos.quantity * pos.avg_price.num
                              + quantity * price * pos.avg_price.den,
                           pos.avg_price.den * new_quantity)
                ELSE @,
            !.quantity = new_quantity]

\* A slip: avg_price is kept when the holding is sold out.
SellPositionKeepsAverage(pos, quantity, price) ==
    [pos EXCEPT !.quantity = @ - quantity]

\* A slip: a SELL sets avg_price to its own price.
SellPositionReprices(pos, quantity, price) ==
    LET new_quantity == pos.quantity - quantity
    IN  [pos EXCEPT
            !.quantity = new_quantity,
            !.avg_price = IF new_quantity = 0 THEN Zero ELSE Ratio(price, 1)]

\* Lines 233-236: the position after a SELL.
SellPosition(pos, quantity, price) ==
    LET new_quantity == pos.quantity - quantity
    IN  [pos EXCEPT
            !.quantity = new_quantity,
            !.avg_price = IF new_quantity = 0 THEN Zero ELSE @]

\* A slip: last_price is set for a new entry only.
update_position_unmarked(ps, symbol, side, quantity, price) ==
    LET ps1 == IF symbol \in DOMAIN ps
               THEN ps
               ELSE ps @@ (symbol :> [quantity |-> 0, avg_price |-> Zero,
                                      last_price |-> price])
        pos == IF side = "BUY"
               THEN BuyPosition(ps1[symbol], quantity, price)
               ELSE SellPosition(ps1[symbol], quantity, price)
    IN  [ps1 EXCEPT ![symbol] = pos]

\* _update_position.
update_position(ps, symbol, side, quantity, price) ==
    LET ps1 == IF symbol \in DOMAIN ps
               THEN ps
               ELSE ps @@ (symbol :> [quantity |-> 0, avg_price |-> Zero,
                                      last_price |-> price])
        pos == IF side = "BUY"
               THEN BuyPosition(ps1[symbol], quantity, price)
               ELSE SellPosition(ps1[symbol], quantity, price)
    IN  [ps1 EXCEPT ![symbol] = [pos EXCEPT !.last_price = price]]

\* Line 148: the cash after a BUY.
CashAfterBuy(c, total_cost) == c - total_cost

\* A slip: the proceeds of a SELL are taken from the cash.
CashAfterSellDebited(c, trade_value, comm) == c - (trade_value - comm)

\* Line 158: the cash after a SELL.
CashAfterSell(c, trade_value, comm) == c + (trade_value - comm)

\* The status calls of a simulated fill that passed validation, by where
\* called code raised: the handler of line 175 rejects the order.
FillCalls(o, exc) ==
    IF exc = "executed" THEN order_reject(order_completed(o)) ELSE order_completed(o)

\* A slip: order.executed.size is the unsigned quantity.
ExecutedSizeUnsigned(side, quantity, exc) == IF exc = "none" THEN quantity ELSE 0

\* order.executed.size of line 167, set when lines 165-168 ran.
ExecutedSize(side, quantity, exc) ==
    IF exc = "none" THEN (IF side = "BUY" THEN quantity ELSE -quantity) ELSE 0

\* _simulate_order: the cash, positions and order it leaves.
simulate_order(c, ps, rate, o, symbol, side, quantity, requested, close, exc) ==
    LET execution_price == ExecutionPrice(requested, close)
        trade_value     == TradeValue(quantity, execution_price)
        comm            == Commission(trade_value, rate)
        total_cost      == trade_value + comm
        unchanged       == [cash |-> c, positions |-> ps, order |-> order_reject(o),
                            price |-> execution_price, trade_value |-> trade_value,
                            comm |-> comm, executed |-> 0]
    IN  IF exc = "close" THEN unchanged
        ELSE IF side = "BUY" /\ InsufficientCash(total_cost, c) THEN unchanged
        ELSE IF side = "SELL" /\ InsufficientPosition(quantity, HeldQuantity(ps, symbol))
             THEN unchanged
        ELSE [cash      |-> IF side = "BUY" THEN CashAfterBuy(c, total_cost)
                                            ELSE CashAfterSell(c, trade_value, comm),
              positions |-> update_position(ps, symbol, side, quantity, execution_price),
              order     |-> FillCalls(o, exc),
              price     |-> execution_price,
              trade_value |-> trade_value,
              comm      |-> comm,
              executed  |-> ExecutedSize(side, quantity, exc)]

\* A slip: the response's status is not read.
place_real_order_unread(o, response) ==
    IF response = "exception" THEN order_reject(o) ELSE order_accept(o)

\* _place_real_order: the order after dhan.place_order answered.
place_real_order(o, response) ==
    IF response = "success" THEN order_accept(o) ELSE order_reject(o)

\* A slip: the positions are valued at avg_price (whole rupees), in paise.
RECURSIVE PositionsValueAtAverage(_, _)
PositionsValueAtAverage(ps, symbols) ==
    IF symbols = {} THEN 0
    ELSE LET s == CHOOSE x \in symbols : TRUE
         IN  (IF ps[s].quantity # 0
              THEN ps[s].quantity * (ps[s].avg_price.num \div ps[s].avg_price.den) * 100
              ELSE 0)
             + PositionsValueAtAverage(ps, symbols \ {s})

\* The sum of quantity * last_price over the positions with quantity # 0, in paise.
RECURSIVE PositionsValue(_, _)
PositionsValue(ps, symbols) ==
    IF symbols = {} THEN 0
    ELSE LET s == CHOOSE x \in symbols : TRUE
         IN  (IF ps[s].quantity # 0 THEN ps[s].quantity * ps[s].last_price * 100 ELSE 0)
             + PositionsValue(ps, symbols \ {s})

\* getvalue: the value it computes (and stores in self.value).
getvalue(c, ps) == c + PositionsValue(ps, DOMAIN ps)

\* A slip: the position's price is its last_price.
getposition_at_last_price(ps, symbol) ==
    IF symbol \in DOMAIN ps
    THEN [size |-> ps[symbol].quantity, price |-> Ratio(ps[symbol].last_price, 1)]
    ELSE [size |-> 0, price |-> Zero]

\* getposition: (size, price) of the symbol.
getposition(ps, symbol) ==
    IF symbol \in DOMAIN ps
    THEN [size |-> ps[symbol].quantity, price |-> ps[symbol].avg_price]
    ELSE [size |-> 0, price |-> Zero]

(***************************************************************************)
(* The state machine                                                       *)
(*                                                                         *)
(* Order objects belong to the strategy engine: DhanBroker keeps none      *)
(* (self.orders is never written).  The engine holds one order object at   *)
(* a time: it creates it, submits it once, may cancel it before or after,  *)
(* and drops it when it creates the next.                                  *)
(***************************************************************************)

NoPositions == [s \in {} |-> Zero]

\* No submit has moved cash and positions yet.
NoFill == [symbol |-> "", side |-> "", quantity |-> 0, price |-> 0, cash_before |-> 0]

\* What a call that returns nothing returns.
Nothing == [amount |-> 0, size |-> 0, price |-> Zero]

\* What `last` holds after a call that is not a submit.
Call(op) ==
    [op |-> op, symbol |-> "", side |-> "", quantity |-> 0,
     requested |-> <<>>, close |-> 0, exc |-> "none", response |-> "",
     price |-> 0, trade_value |-> 0,
     comm |-> 0, executed |-> 0, returned |-> Nothing,
     cash_before |-> cash, value_before |-> value,
     positions_before |-> positions, order_before |-> order,
     filled_before |-> filled]

\* LiveDataFeed.__init__ of a feed without a client: no worker is started.
NoFeed ==
    /\ kite = FALSE
    /\ is_live = FALSE
    /\ workers = 0
    /\ live_data_queue = <<>>

\* No order is handed to a PaperTradingBroker.
NoPaperOrder ==
    paper_order = [side |-> "", requested |-> <<>>, close |-> 0, price |-> <<>>,
                   status |-> "None"]

\* What a constructor has met before it fetches.
NoFetch == [symbol_known |-> TRUE, client |-> TRUE, outcome |-> "", records |-> <<>>]

\* No data feed is constructed.
NoBars ==
    /\ feed_class = "None"
    /\ fetch = NoFetch
    /\ dataname = <<>>
    /\ built = "no"

\* DhanTradingStrategy does not run.
NoDemo ==
    /\ pending_order = FALSE
    /\ bar_count = 0
    /\ engine = "notify"

\* TradingLogger.__init__ (line 73), before any call.
NoLogger ==
    /\ portfolio_snapshots = 0
    /\ portfolio_history = <<>>
    /\ summary = <<>>

\* Nothing runs outside the adapter and the strategies.
Idle == NoFeed /\ NoPaperOrder /\ NoBars /\ NoDemo /\ NoLogger

\* No strategy runs: the adapter is driven call by call.
NoStrategy ==
    /\ strategy = "None"
    /\ orders = [s \in Symbols |-> 0]
    /\ issued = <<>>
    /\ notifications = <<>>
    /\ held = [s \in Symbols |-> 0]
    /\ crossover = [s \in Symbols |-> "none"]
    /\ trades = <<>>
    /\ params = [max_positions |-> max_positions]

\* DhanBroker.__init__, for each configuration.
Init ==
    /\ NoStrategy
    /\ Idle
    /\ cash = initial_cash
    /\ value = initial_cash
    /\ positions = NoPositions
    /\ order = NoOrder
    /\ order_count = 0
    /\ commission \in CommissionConfigs
    /\ paper_trading \in BOOLEAN
    /\ filled = NoFill
    /\ last = [op |-> "init", symbol |-> "", side |-> "", quantity |-> 0,
               requested |-> <<>>, close |-> 0, exc |-> "none", response |-> "",
               price |-> 0, trade_value |-> 0, comm |-> 0, executed |-> 0,
               returned |-> Nothing,
               cash_before |-> initial_cash, value_before |-> initial_cash,
               positions_before |-> NoPositions, order_before |-> NoOrder,
               filled_before |-> NoFill]

\* The strategy engine creates an order object (buy / sell of a strategy).
NewOrder ==
    /\ order_count < MaxOrders
    /\ order' = NewOrderObject
    /\ order_count' = order_count + 1
    /\ last' = Call("new")
    /\ UNCHANGED <<cash, value, positions, commission, paper_trading, filled>>
    /\ UNCHANGED <<strategy_vars, aux_vars>>

\* submit, paper trading: _simulate_order.
SubmitSimulated(symbol, side, quantity, requested, close, exc) ==
    /\ paper_trading
    /\ exc = "close" => ~HasPrice(requested)
    /\ LET r == simulate_order(cash, positions, commission, order, symbol, side,
                               quantity, requested, close, exc)
       IN  /\ cash' = r.cash
           /\ positions' = r.positions
           /\ order' = r.order
           /\ last' = [Call("submit") EXCEPT
                          !.symbol = symbol, !.side = side, !.quantity = quantity,
                          !.requested = requested, !.close = close, !.exc = exc,
                          !.price = r.price, !.trade_value = r.trade_value,
                          !.comm = r.comm, !.executed = r.executed]
           /\ filled' = IF r.positions # positions
                        THEN [symbol |-> symbol, side |-> side, quantity |-> quantity,
                              price |-> r.price, cash_before |-> cash]
                        ELSE filled
    /\ UNCHANGED <<value, order_count, commission, paper_trading>>
    /\ UNCHANGED <<strategy_vars, aux_vars>>

\* submit, live trading: _place_real_order.
SubmitReal(symbol, side, quantity, response) ==
    /\ ~paper_trading
    /\ order' = place_real_order(order, response)
    /\ last' = [Call("submit") EXCEPT
                   !.symbol = symbol, !.side = side, !.quantity = quantity,
                   !.exc = IF response = "exception" THEN "place_order" ELSE "none",
                   !.response = response]
    /\ UNCHANGED <<cash, value, positions, order_count, commission, paper_trading,
                   filled>>
    /\ UNCHANGED <<strategy_vars, aux_vars>>

\* DhanBroker.submit of the order the strategy engine created, called code
\* raising at one of `points`.
SubmitRaising(points) ==
    /\ order.status = "Created"
    /\ \E symbol \in Symbols, side \in Sides :
         \E quantity \in Quantities(symbol) :
            \/ \E requested \in RequestedPrices(symbol), close \in ClosePrices(symbol),
                  exc \in points :
                   SubmitSimulated(symbol, side, quantity, requested, close, exc)
            \/ \E response \in Responses :
                   SubmitReal(symbol, side, quantity, response)

\* submit, with every outcome of the code it calls.
Submit == SubmitRaising(RaisePoints)

\* submit, in a session where no code called by a simulated fill raises.
SubmitQuietly == SubmitRaising({"none"})

\* DhanBroker.cancel of the order the strategy engine holds.
Cancel ==
    /\ order # NoOrder
    /\ order' = order_cancel(order)
    /\ last' = Call("cancel")
    /\ UNCHANGED <<cash, value, positions, order_count, commission, paper_trading,
                   filled>>
    /\ UNCHANGED <<strategy_vars, aux_vars>>

\* DhanBroker.getcash.
GetCash ==
    /\ last' = [Call("getcash") EXCEPT !.returned.amount = cash]
    /\ UNCHANGED <<cash, value, positions, order, order_count, commission,
                   paper_trading, filled>>
    /\ UNCHANGED <<strategy_vars, aux_vars>>

\* A slip: the total is stored in self.cash.
GetValueStoresInCash ==
    /\ cash' = getvalue(cash, positions)
    /\ last' = [Call("getvalue") EXCEPT !.returned.amount = getvalue(cash, positions)]
    /\ UNCHANGED <<value, positions, order, order_count, commission, paper_trading,
                   filled>>
    /\ UNCHANGED <<strategy_vars, aux_vars>>

\* DhanBroker.getvalue, also called by next on each bar.
GetValue ==
    /\ value' = getvalue(cash, positions)
    /\ last' = [Call("getvalue") EXCEPT !.returned.amount = getvalue(cash, positions)]
    /\ UNCHANGED <<cash, positions, order, order_count, commission, paper_trading,
                   filled>>
    /\ UNCHANGED <<strategy_vars, aux_vars>>

\* DhanBroker.getposition of the data feed of a symbol.
GetPosition ==
    /\ \E symbol \in Symbols :
         last' = [Call("getposition") EXCEPT
                     !.symbol = symbol,
                     !.returned.size = getposition(positions, symbol).size,
                     !.returned.price = getposition(positions, symbol).price]
    /\ UNCHANGED <<cash, value, positions, order, order_count, commission,
                   paper_trading, filled>>
    /\ UNCHANGED <<strategy_vars, aux_vars>>

Next == NewOrder \/ Submit \/ Cancel \/ GetCash \/ GetValue \/ GetPosition

Spec == Init /\ [][Next]_vars

\* The sessions in which no code called by a simulated fill raises.
NextQuietly ==
    NewOrder \/ SubmitQuietly \/ Cancel \/ GetCash \/ GetValue \/ GetPosition

SpecQuiet == Init /\ [][NextQuietly]_vars

(***************************************************************************)
(* The strategies                                                          *)
(*                                                                         *)
(* A strategy runs on the engine with its broker: the engine hands it the  *)
(* broker's queued order notifications, then calls next for the bar.  The  *)
(* broker moves an issued order from Submitted to Accepted to Completed,   *)
(* or rejects it, at times of its own.                                     *)
(***************************************************************************)

\* self.datas: SimpleStrategy trades self.data, the others every feed.
datas(st) ==
    IF st \in SingleDataStrategies THEN <<"RELIANCE">> ELSE <<"RELIANCE", "TCS">>

\* params.position_size.
position_size(st) == IF st \in SingleDataStrategies THEN 1 ELSE 5

\* The indicator values of a bar, for each symbol: a CrossOver is never
\* followed by another of the same direction.
Signals ==
    {sig \in [Symbols -> [cross : Crosses, rsi : RsiZones]] :
        \A s \in Symbols : sig[s].cross = "none" \/ sig[s].cross # crossover[s]}

\* sum(1 for d in self.datas if self.getposition(d)).
active_positions(st, h) ==
    Cardinality({i \in DOMAIN datas(st) : h[datas(st)[i]] # 0})

\* check_trading_signals (next of SimpleStrategy): the side of the order
\* it issues for the symbol, "" for none.
check_trading_signals(st, h, symbol, sig) ==
    IF st \in SingleDataStrategies
    THEN IF h[symbol] = 0
         THEN (IF sig.cross = "up" THEN "BUY" ELSE "")
         ELSE (IF sig.cross = "down" THEN "SELL" ELSE "")
    ELSE IF h[symbol] = 0
         THEN (IF sig.cross = "up" /\ sig.rsi = "low"
                  /\ active_positions(st, h) < params.max_positions
               THEN "BUY" ELSE "")
         ELSE (IF sig.cross = "down" \/ sig.rsi = "high" THEN "SELL" ELSE "")

\* self.buy / self.sell: the broker takes the order and queues its
\* Submitted notification; the strategy tracks it.
IssueOrder(t, symbol, side) ==
    [orders        |-> [t.orders EXCEPT ![symbol] = Len(t.issued) + 1],
     issued        |-> Append(t.issued, [symbol |-> symbol, side |-> side,
                                         status |-> "Submitted"]),
     notifications |-> Append(t.notifications,
                              [id |-> Len(t.issued) + 1, status |-> "Submitted",
                               closed |-> FALSE])]

\* next: the loop over self.datas from position i on, skipping the symbols
\* with a tracked order.
RECURSIVE next(_, _, _, _, _)
next(st, h, sigs, t, i) ==
    IF i > Len(datas(st)) THEN t
    ELSE LET symbol == datas(st)[i]
             side   == check_trading_signals(st, h, symbol, sigs[symbol])
         IN  next(st, h, sigs,
                  IF t.orders[symbol] # 0 \/ side = "" THEN t
                  ELSE IssueOrder(t, symbol, side),
                  i + 1)

\* notify_order: TradingStrategy returns on Submitted and Accepted; the
\* tracked order of the symbol is cleared otherwise.
notify_order(st, tracked, symbol, status) ==
    IF st = "TradingStrategy" /\ status \in {"Submitted", "Accepted"}
    THEN tracked
    ELSE [tracked EXCEPT ![symbol] = 0]

\* A strategy starts on a broker that holds no position.
InitStrategy ==
    /\ cash = initial_cash
    /\ value = initial_cash
    /\ positions = NoPositions
    /\ order = NoOrder
    /\ order_count = 0
    /\ commission = PercentCommission
    /\ paper_trading = TRUE
    /\ filled = NoFill
    /\ last = [Call("init") EXCEPT !.filled_before = NoFill]
    /\ Idle
    /\ strategy \in Strategies
    /\ orders = [s \in Symbols |-> 0]
    /\ issued = <<>>
    /\ notifications = <<>>
    /\ held = [s \in Symbols |-> 0]
    /\ crossover = [s \in Symbols |-> "none"]
    /\ trades = <<>>
    /\ params \in [max_positions : IF strategy \in SingleDataStrategies
                                    THEN {max_positions}
                                    ELSE MaxPositionsParams]

\* A bar: the engine has delivered the queued notifications and calls next.
StrategyNext ==
    /\ notifications = <<>>
    /\ \E sigs \in Signals :
         LET t == next(strategy, held, sigs,
                       [orders |-> orders, issued |-> issued,
                        notifications |-> notifications], 1)
         IN  /\ Len(t.issued) <= MaxIssued
             /\ orders' = t.orders
             /\ issued' = t.issued
             /\ notifications' = t.notifications
             /\ crossover' = [s \in Symbols |->
                                 IF sigs[s].cross = "none" THEN crossover[s]
                                 ELSE sigs[s].cross]
    /\ UNCHANGED <<strategy, params, held, trades>>
    /\ UNCHANGED <<broker_vars, aux_vars>>

\* The log_trade calls of notify_order and notify_trade for a notification:
\* one for a Completed order, and one more when it closed the trade.
log_trade(st, n, side) ==
    IF st \in LoggingStrategies /\ n.status = "Completed"
    THEN <<[order |-> n.id, action |-> side]>>
         \o (IF n.closed THEN <<[order |-> n.id, action |-> "CLOSE"]>> ELSE <<>>)
    ELSE <<>>

\* The engine hands the strategy the oldest queued notification, and the
\* trade it closed.
NotifyOrder ==
    /\ notifications # <<>>
    /\ orders' = notify_order(strategy, orders, issued[Head(notifications).id].symbol,
                              Head(notifications).status)
    /\ trades' = trades \o log_trade(strategy, Head(notifications),
                                     issued[Head(notifications).id].side)
    /\ notifications' = Tail(notifications)
    /\ UNCHANGED <<strategy, params, issued, held, crossover>>
    /\ UNCHANGED <<broker_vars, aux_vars>>

\* The broker gives order i the status and queues the notification.
BrokerMarks(i, status, closed) ==
    /\ issued' = [issued EXCEPT ![i].status = status]
    /\ notifications' = Append(notifications,
                               [id |-> i, status |-> status, closed |-> closed])
    /\ UNCHANGED trades
    /\ UNCHANGED <<strategy, params, orders, crossover>>
    /\ UNCHANGED <<broker_vars, aux_vars>>

\* The broker accepts a Submitted order.
BrokerAccept ==
    \E i \in DOMAIN issued :
        /\ issued[i].status = "Submitted"
        /\ BrokerMarks(i, "Accepted", FALSE)
        /\ UNCHANGED held

\* The broker executes an Accepted order in full.
BrokerExecute ==
    \E i \in DOMAIN issued :
        /\ issued[i].status = "Accepted"
        /\ held' = [held EXCEPT ![issued[i].symbol] =
                        IF issued[i].side = "BUY" THEN @ + position_size(strategy)
                                                  ELSE @ - position_size(strategy)]
        /\ BrokerMarks(i, "Completed",
                       held[issued[i].symbol] # 0 /\ held'[issued[i].symbol] = 0)

\* The broker rejects an order it has not executed (Margin, Rejected).
BrokerReject ==
    \E i \in DOMAIN issued :
        /\ issued[i].status \in {"Submitted", "Accepted"}
        /\ BrokerMarks(i, "Rejected", FALSE)
        /\ UNCHANGED held

NextStrategy ==
    StrategyNext \/ NotifyOrder \/ BrokerAccept \/ BrokerExecute \/ BrokerReject

SpecStrategy == InitStrategy /\ [][NextStrategy]_vars

(***************************************************************************)
(* The live data feed                                                      *)
(*                                                                         *)
(* One LiveDataFeed: main calls start_live_feed, each worker thread polls  *)
(* kite.quote once a second and puts a bar on live_data_queue.  No code of *)
(* the repository takes a bar from the queue.                              *)
(***************************************************************************)

\* A session of one feed, with or without an API client.
InitFeed ==
    /\ cash = initial_cash
    /\ value = initial_cash
    /\ positions = NoPositions
    /\ order = NoOrder
    /\ order_count = 0
    /\ commission = PercentCommission
    /\ paper_trading = TRUE
    /\ filled = NoFill
    /\ last = [Call("init") EXCEPT !.filled_before = NoFill]
    /\ NoStrategy
    /\ kite \in BOOLEAN
    /\ is_live = FALSE
    /\ workers = 0
    /\ live_data_queue = <<>>
    /\ NoPaperOrder
    /\ NoBars
    /\ NoDemo
    /\ NoLogger

\* start_live_feed: returns without a client or with the market closed,
\* starts a worker thread otherwise.
StartLiveFeed ==
    /\ workers < MaxStarts
    /\ \E market_open \in BOOLEAN :
         IF ~kite \/ ~market_open
         THEN UNCHANGED <<is_live, workers>>
         ELSE is_live' = TRUE /\ workers' = workers + 1
    /\ UNCHANGED <<kite, live_data_queue>>
    /\ UNCHANGED <<broker_vars, strategy_vars, paper_order, bars_vars,
                   demo_vars, logger_vars>>

\* One round of the loop of _live_data_worker in thread w.
LiveDataWorker ==
    /\ is_live
    /\ \E w \in 1..workers, answer \in QuoteAnswers, last_price \in QuotePrices :
         IF answer = "quote"
         THEN /\ Len(live_data_queue) < MaxQueued
              /\ live_data_queue' =
                    Append(live_data_queue, [worker |-> w, close |-> last_price])
         ELSE UNCHANGED live_data_queue
    /\ UNCHANGED <<kite, is_live, workers>>
    /\ UNCHANGED <<broker_vars, strategy_vars, paper_order, bars_vars,
                   demo_vars, logger_vars>>

NextFeed == StartLiveFeed \/ LiveDataWorker

SpecFeed == InitFeed /\ [][NextFeed]_vars

(***************************************************************************)
(* PaperTradingBroker: slippage                                            *)
(***************************************************************************)

\* price * (CONFIG['slippage_percent'] / 100), as a fraction of a paisa.
Slippage(price) == Ratio(price * slippage_percent, 10000)

\* n + f and n - f for a whole n and a fraction f.
Plus(n, f) == Ratio(n * f.den + f.num, f.den)

Minus(n, f) == Ratio(n * f.den - f.num, f.den)

\* A slip: the slippage is taken off a BUY and added to a SELL.
fill_price_in_favour(side, price) ==
    IF side = "BUY" THEN Minus(price, Slippage(price)) ELSE Plus(price, Slippage(price))

\* _fill_price.
fill_price(side, price) ==
    IF side = "BUY" THEN Plus(price, Slippage(price)) ELSE Minus(price, Slippage(price))

\* An order is created and handed to the broker.
InitPaper ==
    /\ cash = initial_cash
    /\ value = initial_cash
    /\ positions = NoPositions
    /\ order = NoOrder
    /\ order_count = 0
    /\ commission = PercentCommission
    /\ paper_trading = TRUE
    /\ filled = NoFill
    /\ last = [Call("init") EXCEPT !.filled_before = NoFill]
    /\ NoStrategy
    /\ NoFeed
    /\ NoBars
    /\ NoDemo
    /\ NoLogger
    /\ \E side \in Sides, requested \in PaperPrices, close \in PaperCloses :
         paper_order = [side |-> side, requested |-> requested, close |-> close,
                        price |-> IF requested = <<>> THEN <<>>
                                  ELSE <<Ratio(requested[1], 1)>>,
                        status |-> "Created"]

\* PaperTradingBroker.submit: a market order gets the close with slippage
\* as its price before BackBroker.submit takes it.
PaperSubmit ==
    /\ paper_order.status = "Created"
    /\ paper_order' =
          [paper_order EXCEPT
              !.price = IF @ = <<>>
                        THEN <<fill_price(paper_order.side, paper_order.close)>>
                        ELSE @,
              !.status = "Submitted"]
    /\ UNCHANGED <<broker_vars, strategy_vars, feed_vars, bars_vars,
                   demo_vars, logger_vars>>

NextPaper == PaperSubmit

SpecPaper == InitPaper /\ [][NextPaper]_vars

(***************************************************************************)
(* The data feeds                                                          *)
(***************************************************************************)

\* The lists of records an API call may return, in any order.
RecordLists == UNION {[1..n -> RecordTimes] : n \in 1..MaxRecords}

\* What a constructor may meet: without a client no call returns records.
Fetches ==
    {f \in [symbol_known : BOOLEAN, client : BOOLEAN, outcome : FetchOutcomes,
            records : RecordLists \cup {<<>>}] :
        /\ (f.outcome = "records") = (f.records # <<>>)
        /\ f.outcome \in {"empty", "records"} => f.client}

\* t put into the ascending sequence at its place, after the equal ones.
RECURSIVE Insert(_, _)
Insert(sorted, t) ==
    IF sorted = <<>> THEN <<t>>
    ELSE IF t < Head(sorted) THEN <<t>> \o sorted
    ELSE <<Head(sorted)>> \o Insert(Tail(sorted), t)

\* df.sort_index(): ascending, equal timestamps kept.
RECURSIVE sort_index(_)
sort_index(records) ==
    IF records = <<>> THEN <<>>
    ELSE Insert(sort_index(SubSeq(records, 1, Len(records) - 1)),
                records[Len(records)])

\* df[~df.index.duplicated(keep='first')].
RECURSIVE drop_duplicated(_)
drop_duplicated(records) ==
    IF records = <<>> THEN <<>>
    ELSE LET front == drop_duplicated(SubSeq(records, 1, Len(records) - 1))
             t     == records[Len(records)]
         IN  IF \E i \in DOMAIN front : front[i] = t THEN front ELSE Append(front, t)

\* _fetch_historical_data / _get_historical_data: whether it returns a
\* frame, and the frame's timestamps.
fetch_historical_data(class, f) ==
    IF ~f.symbol_known \/ f.outcome # "records"
       \/ (class # "DhanData" /\ ~f.client)
    THEN [frame |-> FALSE, index |-> <<>>]
    ELSE [frame |-> TRUE,
          index |-> IF class = "ZerodhaData"
                    THEN drop_duplicated(sort_index(f.records))
                    ELSE sort_index(f.records)]

\* The trading-hours filter of _create_sample_data for intraday bars, on a
\* timestamp of hour : minute.
trading_hours(class, hour, minute) ==
    IF class = "DhanData"
    THEN \/ (hour >= 9 /\ hour < 15)
         \/ (hour = 9 /\ minute >= 15)
         \/ (hour = 15 /\ minute <= 30)
    ELSE IF class = "ZerodhaData"
    THEN /\ (hour >= 9 /\ hour < 16)
         /\ \/ (hour = 9 /\ minute >= 15)
            \/ (hour > 9 /\ hour < 15)
            \/ (hour = 15 /\ minute <= 30)
    ELSE hour >= 9 /\ hour < 16

\* The members of a set of numbers, ascending.
RECURSIVE Ascending(_)
Ascending(set) ==
    IF set = {} THEN <<>>
    ELSE LET low == CHOOSE t \in set : \A u \in set : t <= u
         IN  <<low>> \o Ascending(set \ {low})

\* _create_sample_data: the timestamps of one day of pd.date_range that
\* pass the filter.
create_sample_data(class) ==
    Ascending({hour * 60 + minute : hour \in 0..23, minute \in SampleMinutes}
              \cap {t \in 0..1439 : trading_hours(class, t \div 60, t % 60)})

\* A data feed of some class is about to be constructed.
InitBars ==
    /\ cash = initial_cash
    /\ value = initial_cash
    /\ positions = NoPositions
    /\ order = NoOrder
    /\ order_count = 0
    /\ commission = PercentCommission
    /\ paper_trading = TRUE
    /\ filled = NoFill
    /\ last = [Call("init") EXCEPT !.filled_before = NoFill]
    /\ NoStrategy
    /\ NoFeed
    /\ NoPaperOrder
    /\ NoDemo
    /\ NoLogger
    /\ feed_class \in FeedClasses
    /\ fetch = NoFetch
    /\ dataname = <<>>
    /\ built = "no"

\* __init__ of the data feed: LiveDataFeed looks its symbol up in
\* CONFIG['symbols'] first; then the fetch, and sample bars without a frame
\* (DhanData and ZerodhaData: or with an empty one).
ConstructFeed ==
    /\ built = "no"
    /\ \E f \in Fetches :
         LET historical_data == fetch_historical_data(feed_class, f)
         IN  /\ fetch' = f
             /\ IF feed_class = "LiveDataFeed" /\ ~f.symbol_known
                THEN built' = "raised" /\ dataname' = <<>>
                ELSE IF historical_data.frame /\ historical_data.index # <<>>
                THEN built' = "fetched" /\ dataname' = historical_data.index
                ELSE built' = "sample" /\ dataname' = create_sample_data(feed_class)
    /\ UNCHANGED feed_class
    /\ UNCHANGED <<broker_vars, strategy_vars, feed_vars, paper_order,
                   demo_vars, logger_vars>>

NextBars == ConstructFeed

SpecBars == InitBars /\ [][NextBars]_vars

(***************************************************************************)
(* DhanTradingStrategy on DhanBroker (dhan_backtrader_demo.py)             *)
(*                                                                         *)
(* One data feed, RELIANCE.  For each bar the engine first asks the broker *)
(* for notifications (get_notification, until it returns None) and hands   *)
(* them to the strategy's notify_order, then calls the strategy's next.    *)
(* buy and sell of the strategy create an order and hand it to             *)
(* DhanBroker.submit, which resolves it before it returns.                 *)
(***************************************************************************)

\* The data feed main adds (line 182).
demo_symbol == "RELIANCE"

\* position_size main adds the strategy with (line 203).
demo_position_size == 5

\* DhanBroker.get_notification: None (<<>>) at every call.
get_notification == <<>>

\* DhanTradingStrategy.notify_order: self.order after the notification.
demo_notify_order(held_order, status) ==
    IF status \in {"Submitted", "Accepted"} THEN held_order ELSE FALSE

\* The order DhanTradingStrategy.next issues on a bar, "" for none.
demo_signal(size, cross, rsi, enough) ==
    IF size = 0
    THEN (IF cross = "up" /\ rsi = "low" /\ enough THEN "BUY" ELSE "")
    ELSE (IF cross = "down" \/ rsi = "high" THEN "SELL" ELSE "")

\* DhanBroker.__init__ and DhanTradingStrategy.__init__.
InitDemo ==
    /\ cash = initial_cash
    /\ value = initial_cash
    /\ positions = NoPositions
    /\ order = NoOrder
    /\ order_count = 0
    /\ commission \in CommissionConfigs
    /\ paper_trading \in BOOLEAN
    /\ filled = NoFill
    /\ last = [Call("init") EXCEPT !.filled_before = NoFill]
    /\ NoStrategy
    /\ NoFeed
    /\ NoPaperOrder
    /\ NoBars
    /\ NoDemo
    /\ NoLogger

\* The engine's broker step of a bar: it takes notifications from
\* get_notification until None comes, and hands each to notify_order.
EngineNotify ==
    /\ engine = "notify"
    /\ pending_order' = IF get_notification = <<>>
                        THEN pending_order
                        ELSE demo_notify_order(pending_order, get_notification[1])
    /\ engine' = "next"
    /\ UNCHANGED bar_count
    /\ UNCHANGED <<broker_vars, strategy_vars, feed_vars, paper_order, bars_vars,
                   logger_vars>>

\* self.buy / self.sell of the demo strategy: the order is created and
\* DhanBroker.submit resolves it; self.order holds the order it returns.
DemoSubmit(side, close, exc, response) ==
    /\ order_count < MaxOrders
    /\ order_count' = order_count + 1
    /\ pending_order' = TRUE
    /\ IF paper_trading
       THEN LET r == simulate_order(cash, positions, commission, NewOrderObject,
                                    demo_symbol, side, demo_position_size, <<>>,
                                    close, exc)
            IN  /\ cash' = r.cash
                /\ positions' = r.positions
                /\ order' = r.order
                /\ last' = [Call("submit") EXCEPT
                               !.symbol = demo_symbol, !.side = side,
                               !.quantity = demo_position_size, !.close = close,
                               !.exc = exc, !.price = r.price,
                               !.trade_value = r.trade_value, !.comm = r.comm,
                               !.executed = r.executed, !.order_before = NewOrderObject]
                /\ filled' = IF r.positions # positions
                             THEN [symbol |-> demo_symbol, side |-> side,
                                   quantity |-> demo_position_size,
                                   price |-> r.price, cash_before |-> cash]
                             ELSE filled
       ELSE /\ order' = place_real_order(NewOrderObject, response)
            /\ last' = [Call("submit") EXCEPT
                           !.symbol = demo_symbol, !.side = side,
                           !.quantity = demo_position_size,
                           !.exc = IF response = "exception" THEN "place_order"
                                   ELSE "none",
                           !.response = response, !.order_before = NewOrderObject]
            /\ UNCHANGED <<cash, positions, filled>>
    /\ UNCHANGED <<value, commission, paper_trading>>

\* DhanTradingStrategy.next on a bar.
DemoNext ==
    /\ engine = "next"
    /\ engine' = "notify"
    /\ bar_count' = IF bar_count < MaxBars THEN bar_count + 1 ELSE bar_count
    /\ \E cross \in Crosses, rsi \in RsiZones, enough \in BOOLEAN :
         LET side == demo_signal(HeldQuantity(positions, demo_symbol), cross, rsi,
                                 enough)
         IN  IF pending_order \/ side = ""
             THEN UNCHANGED <<broker_vars, pending_order>>
             ELSE \E close \in ClosePrices(demo_symbol), exc \in RaisePoints,
                     response \in Responses :
                      DemoSubmit(side, close, exc, response)
    /\ UNCHANGED <<strategy_vars, feed_vars, paper_order, bars_vars, logger_vars>>

NextDemo == EngineNotify \/ DemoNext

\* The engine's loop runs both steps for each bar of the feed.
SpecDemo ==
    InitDemo /\ [][NextDemo]_vars /\ WF_vars(EngineNotify) /\ WF_vars(DemoNext)

(***************************************************************************)
(* TradingLogger: the portfolio snapshots kept in memory                   *)
(*                                                                         *)
(* A snapshot is known by its row in the table portfolio_snapshots: the    *)
(* n-th call of log_portfolio_snapshot writes row n.                       *)
(***************************************************************************)

\* Python's seq[-n:]: the last n entries, all of them when there are fewer.
LastOf(seq, n) ==
    IF Len(seq) <= n THEN seq ELSE SubSeq(seq, Len(seq) - n + 1, Len(seq))

\* A slip: the first history_limit entries are kept.
log_portfolio_snapshot_keeps_first(history, snapshot) ==
    LET appended == Append(history, snapshot)
    IN  IF Len(appended) > history_limit
        THEN SubSeq(appended, 1, history_limit)
        ELSE appended

\* log_portfolio_snapshot, lines 202-211: self.portfolio_history after it.
log_portfolio_snapshot(history, snapshot) ==
    LET appended == Append(history, snapshot)
    IN  IF Len(appended) > history_limit
        THEN LastOf(appended, history_limit)
        ELSE appended

\* get_session_summary: 'portfolio_history' of the summary it returns.
get_session_summary(history) == LastOf(history, summary_size)

\* TradingLogger.__init__.
InitLogger ==
    /\ cash = initial_cash
    /\ value = initial_cash
    /\ positions = NoPositions
    /\ order = NoOrder
    /\ order_count = 0
    /\ commission = PercentCommission
    /\ paper_trading = TRUE
    /\ filled = NoFill
    /\ last = [Call("init") EXCEPT !.filled_before = NoFill]
    /\ NoStrategy
    /\ NoFeed
    /\ NoPaperOrder
    /\ NoBars
    /\ NoDemo
    /\ NoLogger

\* log_portfolio_snapshot: the row is written and the entry is kept.
LogPortfolioSnapshot ==
    /\ portfolio_snapshots < MaxSnapshots
    /\ portfolio_snapshots' = portfolio_snapshots + 1
    /\ portfolio_history' =
          log_portfolio_snapshot(portfolio_history, portfolio_snapshots + 1)
    /\ summary' = <<>>
    /\ UNCHANGED <<broker_vars, strategy_vars, feed_vars, paper_order, bars_vars,
                   demo_vars>>

\* get_session_summary.
GetSessionSummary ==
    /\ summary' = get_session_summary(portfolio_history)
    /\ UNCHANGED <<portfolio_snapshots, portfolio_history>>
    /\ UNCHANGED <<broker_vars, strategy_vars, feed_vars, paper_order, bars_vars,
                   demo_vars>>

NextLogger == LogPortfolioSnapshot \/ GetSessionSummary

SpecLogger == InitLogger /\ [][NextLogger]_vars

(***************************************************************************)
(* Properties                                                              *)
(***************************************************************************)

\* The state follows a simulated submit: `order` is the order it resolved.
Simulated == last.op = "submit" /\ paper_trading

\* A simulated submit during which no called code raised.
SimulatedQuietly == Simulated /\ last.exc = "none"

\* The quantity of the submitted symbol held before the submit.
HeldBefore ==
    IF last.symbol \in DOMAIN last.positions_before
    THEN last.positions_before[last.symbol].quantity
    ELSE 0

\* quantity * execution_price of the submitted order, in paise.
LastTradeValue == last.quantity * last.price * 100

\* C1: the cash balance is >= 0 in every reachable state, whatever the
\* configured commission (a percentage rate or a flat amount per order).
C1_CashNeverNegative == cash >= 0

\* C1, for the configurations that are rates of at most 100%: the cash
\* balance is >= 0 in every reachable state.
CashNeverNegativeUnderRate == commission <= 1000 => cash >= 0

\* C2: whenever submit leaves the order Rejected, cash and positions are as
\* they were before the call.
C2_RejectedLeavesPortfolio ==
    (last.op = "submit" /\ order.status = "Rejected")
        => (cash = last.cash_before /\ positions = last.positions_before)

\* C3: a BUY of q at p with commission c, in a submit where no called code
\* raises, is Rejected (cash unchanged) exactly when q*p + c > cash, and is
\* otherwise Completed with cash after = cash before - (q*p + c).
C3_BuyFundsCheck ==
    (SimulatedQuietly /\ last.side = "BUY")
        => IF LastTradeValue + last.comm > last.cash_before
           THEN order.status = "Rejected" /\ cash = last.cash_before
           ELSE order.status = "Completed"
                /\ cash = last.cash_before - (LastTradeValue + last.comm)

\* C3's case: a BUY whose cost equals the cash exactly is Completed and
\* leaves no cash.
C3_Witness ==
    /\ SimulatedQuietly /\ last.side = "BUY"
    /\ LastTradeValue + last.comm = last.cash_before
    /\ order.status = "Completed"
    /\ cash = 0

\* C4: a SELL of q at p with commission c, in a submit where no called code
\* raises, is Rejected (cash unchanged) exactly when q exceeds the quantity
\* held of the symbol (0 for a symbol never traded), and is otherwise
\* Completed with cash after = cash before + (q*p - c).
C4_SellPositionCheck ==
    (SimulatedQuietly /\ last.side = "SELL")
        => IF last.quantity > HeldBefore
           THEN order.status = "Rejected" /\ cash = last.cash_before
           ELSE order.status = "Completed"
                /\ cash = last.cash_before + (LastTradeValue - last.comm)

\* C4's case: the whole holding is sold and the order is Completed.
C4_Witness ==
    /\ SimulatedQuietly /\ last.side = "SELL"
    /\ last.quantity = HeldBefore
    /\ order.status = "Completed"
    /\ cash = last.cash_before + (LastTradeValue - last.comm)

\* C5: the held quantity of every symbol is >= 0 in every reachable state.
C5_NoShortPosition == \A s \in DOMAIN positions : positions[s].quantity >= 0

\* C5's case: a SELL of more than is held of a symbol that is held.
C5_Witness ==
    /\ Simulated /\ last.side = "SELL"
    /\ HeldBefore > 0
    /\ last.quantity > HeldBefore
    /\ positions[last.symbol].quantity = HeldBefore

\* C6: every position entry with quantity 0 has average_price 0.
C6_FlatPositionHasNoAverage ==
    \A s \in DOMAIN positions :
        positions[s].quantity = 0 => positions[s].avg_price = Zero

\* C6's case: a SELL brought a holding with a non-zero average_price to 0.
C6_Witness ==
    /\ Simulated /\ last.side = "SELL"
    /\ HeldBefore > 0
    /\ last.positions_before[last.symbol].avg_price # Zero
    /\ positions[last.symbol].quantity = 0
    /\ positions[last.symbol].avg_price = Zero

\* Some status of `statuses` comes before position j of the order's marks.
MarkedBefore(o, statuses, j) == \E i \in 1..(j - 1) : o.marks[i] \in statuses

\* C7: every order that reaches Completed was marked Accepted before it
\* was marked Completed.
C7_CompletedWasAccepted ==
    \A j \in 1..Len(order.marks) :
        order.marks[j] = "Completed" => MarkedBefore(order, {"Accepted"}, j)

\* C8: Completed, Rejected and Cancelled are terminal: an order marked with
\* one of them gets no other status afterwards.
C8_TerminalStatusIsFinal ==
    \A j \in 1..Len(order.marks) :
        ~MarkedBefore(order, {"Completed", "Rejected", "Cancelled"}, j)

\* C9: under the flat configuration (Rs 20 per order) the commission of a
\* fill is the configured amount, whatever the quantity and price; from the
\* initial cash, BUY 5 @ 2450 leaves cash = 487730.
C9_FlatCommissionCharged ==
    (Simulated /\ commission = FlatCommission /\ order.status = "Completed")
        => /\ last.comm = FlatCommission \div 10
           /\ (last.side = "BUY" /\ last.quantity = 5 /\ last.price = 2450
                  /\ last.cash_before = initial_cash)
               => cash = 48773000

\* C10: under the percentage configuration (0.1%) the commission of a fill
\* is rate * quantity * execution_price; BUY 100 @ 1000 gives trade_value
\* 100000, commission 100, and cash is debited by exactly 100100.
C10_PercentCommissionCharged ==
    (Simulated /\ commission = PercentCommission /\ last.exc # "close")
        => /\ last.trade_value = LastTradeValue
           /\ last.comm * 1000 = LastTradeValue
           /\ (last.side = "BUY" /\ last.quantity = 100 /\ last.price = 1000
                  /\ order.status = "Completed")
               => /\ last.trade_value = 10000000
                  /\ last.comm = 10000
                  /\ cash = last.cash_before - 10010000

\* C10's case: BUY 100 @ 1000 is filled under the 0.1% configuration.
C10_Witness ==
    /\ Simulated /\ commission = PercentCommission
    /\ last.side = "BUY" /\ last.quantity = 100 /\ last.price = 1000
    /\ order.status = "Completed"
    /\ last.comm = 10000
    /\ cash = last.cash_before - 10010000

\* The state follows a simulated submit that moved cash and positions.
Applied == Simulated /\ positions # last.positions_before

\* The entry of the submitted symbol before the submit, (0, 0) if it had none.
EntryBefore ==
    IF last.symbol \in DOMAIN last.positions_before
    THEN last.positions_before[last.symbol]
    ELSE [quantity |-> 0, avg_price |-> Zero, last_price |-> 0]

\* The state follows a SELL that undoes the latest fill before it: a BUY of
\* the same symbol, quantity and price.
SellAfterSameBuy ==
    /\ Applied /\ last.side = "SELL"
    /\ last.filled_before.side = "BUY"
    /\ last.filled_before.symbol = last.symbol
    /\ last.filled_before.quantity = last.quantity
    /\ last.filled_before.price = last.price

\* C11: with commission 0, a filled BUY of q at p followed by a filled SELL
\* of q at p of the same symbol leaves the cash at its value before the BUY.
C11_RoundTripNeutral ==
    (SellAfterSameBuy /\ commission = 0) => cash = last.filled_before.cash_before

\* C11's case: both orders Completed, and the cash moved in between.
C11_Witness ==
    /\ SellAfterSameBuy /\ commission = 0
    /\ order.status = "Completed"
    /\ last.cash_before = last.filled_before.cash_before - LastTradeValue
    /\ cash = initial_cash

\* C12: after a Completed BUY of q at p on a position (old_qty, old_avg) the
\* position has quantity old_qty + q and average price
\* (old_qty * old_avg + q * p) / (old_qty + q).
C12_BuyAveragesIn ==
    (Simulated /\ last.side = "BUY" /\ order.status = "Completed")
        => LET old == EntryBefore
               new == positions[last.symbol]
           IN  /\ new.quantity = old.quantity + last.quantity
               /\ new.avg_price.num * (old.avg_price.den * new.quantity)
                     = (old.quantity * old.avg_price.num
                          + last.quantity * last.price * old.avg_price.den)
                       * new.avg_price.den

\* C12's case: (10, 100) and a BUY of 10 at 120 give (20, 110).
C12_Witness ==
    /\ Simulated /\ last.side = "BUY" /\ order.status = "Completed"
    /\ EntryBefore.quantity = 10 /\ EntryBefore.avg_price = Ratio(100, 1)
    /\ last.quantity = 10 /\ last.price = 120
    /\ positions[last.symbol].quantity = 20
    /\ positions[last.symbol].avg_price = Ratio(110, 1)

\* C13: a Completed SELL that leaves a quantity other than 0 leaves the
\* position's average price as it was.
C13_PartialSellKeepsAverage ==
    (Simulated /\ last.side = "SELL" /\ order.status = "Completed"
       /\ positions[last.symbol].quantity # 0)
        => positions[last.symbol].avg_price = EntryBefore.avg_price

\* C13's case: part of a holding bought at another price than the SELL's is sold.
C13_Witness ==
    /\ Simulated /\ last.side = "SELL" /\ order.status = "Completed"
    /\ positions[last.symbol].quantity > 0
    /\ positions[last.symbol].quantity = EntryBefore.quantity - last.quantity
    /\ positions[last.symbol].avg_price = EntryBefore.avg_price
    /\ EntryBefore.avg_price # Ratio(last.price, 1)

\* quantity * last_price of a symbol's entry, in paise; 0 without an entry.
MarkedValue(symbol) ==
    IF symbol \in DOMAIN positions
    THEN positions[symbol].quantity * positions[symbol].last_price * 100
    ELSE 0

\* C14: portfolio_value is cash + the sum over the positions of
\* quantity * last_price, where last_price is the execution price of the
\* position's latest fill; avg_price plays no part.
C14_ValueMarksAtLastPrice ==
    /\ getvalue(cash, positions) = cash + MarkedValue("RELIANCE") + MarkedValue("TCS")
    /\ last.op = "getvalue" =>
          /\ last.returned.amount = cash + MarkedValue("RELIANCE") + MarkedValue("TCS")
          /\ value = last.returned.amount
    /\ Applied => positions[last.symbol].last_price = last.price

\* C14's case: 95 held at average 2450 and marked at 2600 count for 95 * 2600.
C14_Witness ==
    /\ last.op = "getvalue"
    /\ DOMAIN positions = {"RELIANCE"}
    /\ positions["RELIANCE"].quantity = 95
    /\ positions["RELIANCE"].avg_price = Ratio(2450, 1)
    /\ positions["RELIANCE"].last_price = 2600
    /\ last.returned.amount = cash + 24700000

\* The state follows a read of the adapter: current_cash or portfolio_value.
ReadValue == last.op \in {"getcash", "getvalue"}

\* C15: current_cash and portfolio_value change no field of the adapter
\* (cash, stored value, positions, orders), and a second call returns what
\* the first returned.
C15_ReadsChangeNothing ==
    ReadValue =>
        /\ cash = last.cash_before
        /\ value = last.value_before
        /\ positions = last.positions_before
        /\ order = last.order_before
        /\ last.returned.amount =
              IF last.op = "getcash" THEN cash ELSE getvalue(cash, positions)

\* C15, amended: current_cash changes no field; portfolio_value changes no
\* field but the stored value, which it sets to the total it returns; a
\* second call of either returns what the first returned.
C15_ReadsChangeOnlyStoredValue ==
    ReadValue =>
        /\ cash = last.cash_before
        /\ positions = last.positions_before
        /\ order = last.order_before
        /\ IF last.op = "getcash"
           THEN value = last.value_before /\ last.returned.amount = cash
           ELSE /\ value = last.returned.amount
                /\ last.returned.amount
                      = cash + MarkedValue("RELIANCE") + MarkedValue("TCS")
                /\ getvalue(cash, positions) = last.returned.amount

\* C15's case: portfolio_value, called after a fill, replaced the stored value.
C15_Witness ==
    /\ last.op = "getvalue"
    /\ positions # NoPositions
    /\ value # last.value_before
    /\ cash = last.cash_before

\* The order has had the status.
WasMarked(o, status) == \E i \in DOMAIN o.marks : o.marks[i] = status

\* C16: position_of returns the stored (quantity, average_price), or (0, 0)
\* for a symbol without an entry, and adds no entry; nor does the lookup of
\* the held quantity by a SELL that is rejected for it; the position entries
\* change only in a submit that filled the order.
C16_LookupsAddNoEntry ==
    /\ last.op = "getposition" =>
          /\ positions = last.positions_before
          /\ IF last.symbol \in DOMAIN positions
             THEN /\ last.returned.size = positions[last.symbol].quantity
                  /\ last.returned.price = positions[last.symbol].avg_price
             ELSE last.returned.size = 0 /\ last.returned.price = Zero
    /\ (Simulated /\ last.side = "SELL" /\ last.quantity > HeldBefore)
          => positions = last.positions_before
    /\ positions # last.positions_before
          => Simulated /\ WasMarked(order, "Completed")

\* C16's case: position_of for a symbol never filled, while another is held.
C16_Witness ==
    /\ last.op = "getposition"
    /\ positions # NoPositions
    /\ last.symbol \notin DOMAIN positions
    /\ last.returned.size = 0

\* C17: an order that carries a requested price, whatever its value, executes
\* at that price; the current close is used for the orders that carry none.
C17_RequestedPriceIsUsed ==
    Simulated =>
        last.price = IF Len(last.requested) > 0 THEN last.requested[1] ELSE last.close

\* C18: a Completed order carries a fill of the whole requested quantity,
\* positive for a BUY and negative for a SELL, and the position's quantity
\* changed by that signed amount; a Rejected order carries no fill.
C18_NoPartialFill ==
    /\ (Simulated /\ order.status = "Completed") =>
          /\ last.executed = IF last.side = "BUY" THEN last.quantity
                                                 ELSE 0 - last.quantity
          /\ positions[last.symbol].quantity = EntryBefore.quantity + last.executed
    /\ (last.op = "submit" /\ order.status = "Rejected") => last.executed = 0

\* C18's case: a Completed SELL of part of a holding.
C18_Witness ==
    /\ Simulated /\ last.side = "SELL" /\ order.status = "Completed"
    /\ last.executed < 0
    /\ positions[last.symbol].quantity > 0
    /\ positions[last.symbol].quantity = EntryBefore.quantity - last.quantity

\* The state follows a submit in live trading.
Live == last.op = "submit" /\ ~paper_trading

\* C19: in live trading a submit whose dhan.place_order raises or answers
\* without success leaves the order Rejected, and every live submit returns
\* with cash and positions as they were.
C19_LiveFailureRejects ==
    Live =>
        /\ order.status = IF last.response = "success" THEN "Accepted" ELSE "Rejected"
        /\ cash = last.cash_before
        /\ positions = last.positions_before
        /\ value = last.value_before

\* C19's case: a second live order, its place_order raising, is Rejected.
C19_Witness ==
    /\ Live /\ last.response = "exception"
    /\ order_count = MaxOrders
    /\ order.status = "Rejected"
    /\ cash = initial_cash

\* The orders of the symbol that are issued and not yet Completed, Rejected
\* or Cancelled.
InFlight(symbol) ==
    {i \in DOMAIN issued :
        /\ issued[i].symbol = symbol
        /\ issued[i].status \notin {"Completed", "Rejected", "Cancelled"}}

\* C20: at most one order per symbol is in flight at a time, for every
\* ordering of the order notifications and the bars.
C20_OneOrderInFlight == \A s \in Symbols : Cardinality(InFlight(s)) <= 1

\* C20, for the strategy whose notify_order returns on Submitted and Accepted.
OneOrderInFlightOfTradingStrategy ==
    strategy = "TradingStrategy" => C20_OneOrderInFlight

\* C21: the polling task only appends bars to its feed's queue; it leaves
\* cash and positions alone, and each queue has one producer: at most one
\* worker thread per feed, however often start_live_feed is called.
C21_OneProducerPerQueue ==
    /\ workers <= 1
    /\ \A i \in DOMAIN live_data_queue : live_data_queue[i].worker = 1
    /\ cash = initial_cash /\ positions = NoPositions

\* C22: PaperTradingBroker prices a market order at close + close * 0.05%
\* for a BUY and close - close * 0.05% for a SELL, so the buy price is
\* >= close >= the sell price; a requested price is passed on unchanged.
C22_SlippageAgainstTrader ==
    paper_order.status = "Submitted" =>
        LET p == paper_order.price[1]
            c == paper_order.close
        IN  IF paper_order.requested = <<>>
            THEN IF paper_order.side = "BUY"
                 THEN /\ (p.num - c * p.den) * 2000 = c * p.den
                      /\ p.num >= c * p.den
                 ELSE /\ (c * p.den - p.num) * 2000 = c * p.den
                      /\ p.num <= c * p.den
            ELSE p = Ratio(paper_order.requested[1], 1)

\* C22's case: a market BUY at close 2450.00 is priced above the close.
C22_Witness ==
    /\ paper_order.status = "Submitted"
    /\ paper_order.requested = <<>> /\ paper_order.side = "BUY"
    /\ paper_order.close = 245000
    /\ paper_order.price[1] = Ratio(49024500, 200)

\* Order i has ended with the status and the strategy has been told.
Told(i, statuses) ==
    /\ issued[i].status \in statuses
    /\ \A k \in DOMAIN notifications : notifications[k].id # i

\* The trade records that order i produced.
RecordsOf(i) == {k \in DOMAIN trades : trades[k].order = i}

\* C23: every order that ends Completed or Rejected gives the logger
\* exactly one trade record: rejected orders are logged as well as
\* completed ones, and no order produces two records.
C23_OneRecordPerResolvedOrder ==
    strategy \in LoggingStrategies =>
        \A i \in DOMAIN issued :
            Told(i, {"Completed", "Rejected"}) => Cardinality(RecordsOf(i)) = 1

\* C24: the bars a data feed hands to the engine have strictly increasing
\* timestamps, whatever the order of the fetched records and with records
\* of the same timestamp among them.
C24_TimestampsStrictlyIncrease ==
    \A i, j \in DOMAIN dataname : i < j => dataname[i] < dataname[j]

\* C24, for the feed that drops duplicated timestamps.
TimestampsStrictlyIncreaseInZerodhaData ==
    feed_class = "ZerodhaData" => C24_TimestampsStrictlyIncrease

\* C25: no constructor of a data feed fails because of the bar source:
\* whatever the fetch met, the feed is built, on sample bars unless the
\* fetch returned records.
C25_FeedIsAlwaysBuilt ==
    built # "no" =>
        /\ built \in {"fetched", "sample"}
        /\ fetch.outcome # "records" => built = "sample"
        /\ built = "fetched" => fetch.outcome = "records"

\* C25, for the feeds that do not look the symbol up before the fetch.
FeedIsAlwaysBuiltOutsideLiveDataFeed ==
    feed_class # "LiveDataFeed" => C25_FeedIsAlwaysBuilt

\* C26: every sample bar of DhanData and ZerodhaData is inside market
\* hours, 9:15 to 15:30.
C26_SampleBarsInMarketHours ==
    (built = "sample" /\ feed_class \in {"DhanData", "ZerodhaData"})
        => \A i \in DOMAIN dataname : 555 <= dataname[i] /\ dataname[i] <= 930

\* C26, for the feed whose filter excludes 9:00 to 9:14.
SampleBarsInMarketHoursOfZerodhaData ==
    (built = "sample" /\ feed_class = "ZerodhaData")
        => \A i \in DOMAIN dataname : 555 <= dataname[i] /\ dataname[i] <= 930

\* The strategy holds an order the adapter has resolved.
BlockedByResolved == pending_order /\ order.status \in {"Completed", "Rejected"}

\* C27: after the adapter has resolved an order (Completed or Rejected), the
\* strategy that issued it is eventually notified and clears its
\* pending-order marker: no strategy stays blocked by a resolved order.
C27_ResolvedOrderIsNotified == BlockedByResolved ~> ~pending_order

\* DhanTradingStrategy on DhanBroker issues one order, and no more.
DemoIssuesOneOrder == bar_count > 0 => order_count <= 1

\* C28: in the multi-symbol strategies the number of symbols with a non-zero
\* position never exceeds max_positions, also when several symbols signal a
\* buy on the same bar and when fills arrive after the bar of the order.
C28_PositionsWithinMax ==
    strategy \in Strategies \ SingleDataStrategies
        => active_positions(strategy, held) <= params.max_positions

\* With the default max_positions no more symbols are traded than it allows.
PositionsWithinDefaultMax ==
    (strategy \in Strategies \ SingleDataStrategies
       /\ params.max_positions = max_positions)
        => active_positions(strategy, held) <= max_positions

\* No order is issued for a symbol while max_positions symbols are held.
NoBuyAtMaxPositions ==
    [][\A i \in DOMAIN issued' :
          (i \notin DOMAIN issued /\ issued'[i].side = "BUY"
             /\ strategy \in Strategies \ SingleDataStrategies)
              => active_positions(strategy, held) < params.max_positions]_vars

\* portfolio_value after the submit less portfolio_value before it, in paise.
ValueChange ==
    getvalue(cash, positions) - getvalue(last.cash_before, last.positions_before)

\* held_before * (execution_price - last_price_before), in paise.
Remark == HeldBefore * (last.price - EntryBefore.last_price) * 100

\* C29: a Completed fill changes portfolio_value by
\* -commission + held_before * (execution_price - last_price_before); when
\* the symbol's held quantity was 0 before the fill, by -commission.
C29_FillCostsCommissionAndRemarks ==
    (Applied /\ order.status = "Completed")
        => /\ ValueChange = Remark - last.comm
           /\ HeldBefore = 0 => ValueChange = 0 - last.comm

\* C29's case: a fill at a commission, of a symbol held and marked at
\* another price than the fill's.
C29_Witness ==
    /\ Applied /\ order.status = "Completed"
    /\ last.comm > 0
    /\ HeldBefore > 0
    /\ last.price > EntryBefore.last_price
    /\ ValueChange = Remark - last.comm
    /\ ValueChange > 0

\* C29's other case: a fill at a commission of a symbol that was not held.
C29_FlatCase ==
    /\ Applied /\ order.status = "Completed"
    /\ HeldBefore = 0 /\ last.comm > 0
    /\ getvalue(cash, positions)
          = getvalue(last.cash_before, last.positions_before) - last.comm

\* The entries of a sequence are the latest rows written, in their order.
MostRecent(seq) ==
    \A i \in DOMAIN seq : seq[i] = portfolio_snapshots - Len(seq) + i

\* C30: after any number of log_portfolio_snapshot calls portfolio_history
\* holds at most 1000 entries, the most recent snapshots in the order they
\* were logged; get_session_summary returns at most the last 50 of them.
C30_HistoryKeepsMostRecent ==
    /\ Len(portfolio_history) <= history_limit
    /\ Len(portfolio_history) = portfolio_snapshots
          \/ Len(portfolio_history) = history_limit
    /\ MostRecent(portfolio_history)
    /\ Len(summary) <= summary_size
    /\ summary # <<>> =>
          /\ MostRecent(summary)
          /\ Len(summary) = summary_size \/ summary = portfolio_history

\* C30's case: more snapshots were logged than are kept, and a summary is taken.
C30_Witness ==
    /\ portfolio_snapshots = history_limit + 2
    /\ Len(portfolio_history) = history_limit
    /\ portfolio_history[1] = 3
    /\ portfolio_history[history_limit] = portfolio_snapshots
    /\ Len(summary) = summary_size
    /\ summary[1] = portfolio_snapshots - 49
    /\ summary[summary_size] = portfolio_snapshots

====
